---------------------------- MODULE Spec2Model ----------------------------
(***************************************************************************)
(* A model of the Clarifile retrieval-augmented answering pipeline         *)
(* (src/ingest.py, src/retriever.py, src/app.py).                          *)
(*                                                                         *)
(* Text is a sequence of one-character strings.  Python's None is the      *)
(* value None for text-valued fields and NoneInt for integer-valued ones.  *)
(* Every component owns one record-valued variable; a specification        *)
(* exercises one component and leaves the others idle.                     *)
(***************************************************************************)
EXTENDS Integers, Sequences, FiniteSets, TLC

VARIABLES
    ctx,    \* a call of build_context
    chk,    \* a call of chunk_text
    cit,    \* a call of render_answer_with_citations
    rtv,    \* a call of retrieve_chunks
    ans,    \* a call of answer
    nrm,    \* a call of clean_text
    pdf,    \* a call of load_pdf
    ing,    \* calls of ingest_urls or ingest_pdfs, and the collection
    shm     \* the compatibility shim of app.py: a response, a patched post

vars == <<ctx, chk, cit, rtv, ans, nrm, pdf, ing, shm>>

\* The variables of the ingestion side and of the shim
others == <<nrm, pdf, ing, shm>>

\* The variables of the answering side
answering == <<ctx, chk, cit, rtv, ans>>

Idle == [pc |-> "idle"]

(***************************************************************************)
(* Python values and string primitives                                     *)
(***************************************************************************)

\* None where text is expected: a value no text equals.
None == <<"<None>">>

\* None where an integer is expected (a chunk index is never negative).
NoneInt == -1

\* str.isspace(): the characters str.strip() removes; "NBSP" is U+00A0.
IsSpace(c) == c \in {" ", "\n", "\t", "NBSP"}

Min(a, b) == IF a < b THEN a ELSE b

Max(a, b) == IF a > b THEN a ELSE b

\* s[i:j] with 0 <= i, on 0-based offsets, clamped at the end as Python does.
Slice(s, i, j) == SubSeq(s, i + 1, Min(j, Len(s)))

\* Offset of the first non-space character of s, Len(s) when there is none.
LStripAt(s) ==
    IF \A k \in 1..Len(s) : IsSpace(s[k]) THEN Len(s)
    ELSE (CHOOSE k \in 1..Len(s) :
            /\ ~IsSpace(s[k])
            /\ \A m \in 1..(k - 1) : IsSpace(s[m])) - 1

\* Offset just past the last non-space character of s, 0 when there is none.
RStripAt(s) ==
    IF \A k \in 1..Len(s) : IsSpace(s[k]) THEN 0
    ELSE CHOOSE k \in 1..Len(s) :
            /\ ~IsSpace(s[k])
            /\ \A m \in (k + 1)..Len(s) : IsSpace(s[m])

\* str.strip()
strip(s) == IF RStripAt(s) = 0 THEN <<>> ELSE Slice(s, LStripAt(s), RStripAt(s))

\* str.rstrip()
rstrip(s) == Slice(s, 0, RStripAt(s))

DigitChars == <<"0", "1", "2", "3", "4", "5", "6", "7", "8", "9">>

RECURSIVE IntToStr(_)
\* str(n) of a natural number
IntToStr(n) ==
    IF n < 10 THEN <<DigitChars[n + 1]>>
    ELSE IntToStr(n \div 10) \o <<DigitChars[(n % 10) + 1]>>

NoneStr == <<"N", "o", "n", "e">>

\* How an f-string renders a text-or-None value
FmtText(v) == IF v = None THEN NoneStr ELSE v

\* How an f-string renders an integer-or-None value
FmtInt(n) == IF n = NoneInt THEN NoneStr ELSE IntToStr(n)

RECURSIVE Join(_)
\* "".join(parts)
Join(parts) == IF parts = <<>> THEN <<>> ELSE Head(parts) \o Join(Tail(parts))

(***************************************************************************)
(* build_context (src/retriever.py)                                        *)
(***************************************************************************)

\* The labeled block of one result
Block(source, chunk_index, doc) ==
    <<"S", "o", "u", "r", "c", "e", ":", " ">> \o FmtText(source)
        \o <<" ", "(", "c", "h", "u", "n", "k", " ">> \o FmtInt(chunk_index)
        \o <<")", "\n">> \o doc \o <<"\n", "\n">>

\* (chunk.get("document") or "").strip()
DocOf(chunk) == strip(IF chunk.document = None THEN <<>> ELSE chunk.document)

\* The dedup key of a result
KeyOf(chunk) == <<chunk.id, chunk.source, chunk.chunk>>

IsRepeat_never(key, seen_chunks) == FALSE

\* key in seen_chunks
IsRepeat(key, seen_chunks) == key \in seen_chunks

Overflows_before(total, block, max_chars) == total > max_chars

\* total + len(block) > max_chars
Overflows(total, block, max_chars) == total + Len(block) > max_chars

OnOverflow_continue(st) == st

\* break
OnOverflow(st) == [st EXCEPT !.stopped = TRUE]

\* One iteration of the loop over chunks; i is the 1-based position of chunk.
bc_iteration(st, chunk, i, max_chars) ==
    IF ~chunk.isdict THEN st
    ELSE IF IsRepeat(KeyOf(chunk), st.seen_chunks) THEN st
    ELSE LET st1 == [st EXCEPT !.seen_chunks = @ \cup {KeyOf(chunk)}]
             doc == DocOf(chunk)
             block == Block(chunk.source, chunk.chunk, doc)
         IN  IF doc = <<>> THEN st1
             ELSE IF Overflows(st1.total, block, max_chars) THEN OnOverflow(st1)
             ELSE [st1 EXCEPT !.chunk_parts = Append(@, block),
                              !.used_chunks = Append(@, chunk),
                              !.used_at = Append(@, i),
                              !.total = @ + Len(block)]

RECURSIVE bc_loop(_, _, _, _)
\* for chunk in chunks: ..., from position i on, until the break
bc_loop(st, chunks, i, max_chars) ==
    IF i > Len(chunks) \/ st.stopped THEN st
    ELSE bc_loop(bc_iteration(st, chunks[i], i, max_chars), chunks, i + 1, max_chars)

\* build_context(chunks, max_chars) for chunks a list (None, which raises
\* ValueError, is not a sequence of results); used_at records the input
\* positions of used_chunks.
build_context(chunks, max_chars) ==
    LET st == bc_loop([used_chunks |-> <<>>, chunk_parts |-> <<>>, total |-> 0,
                       seen_chunks |-> {}, used_at |-> <<>>, stopped |-> FALSE],
                      chunks, 1, Max(max_chars, 0))
    IN  [context |-> Join(st.chunk_parts), used_chunks |-> st.used_chunks,
         used_at |-> st.used_at]

(***************************************************************************)
(* Specification of build_context: a call with any bounded input           *)
(***************************************************************************)

\* Longest input sequence of a build_context call
MaxChunks == 3

\* A result record as retrieve_chunks builds it (the fields build_context reads)
Result(id, source, chunk, document) ==
    [isdict |-> TRUE, id |-> id, source |-> source, chunk |-> chunk,
     document |-> document]

\* An element of the input that is not a dict
NonDict ==
    [isdict |-> FALSE, id |-> None, source |-> None, chunk |-> NoneInt,
     document |-> None]

\* Keys that differ from the first in exactly one component
CtxKeys ==
    {<<(<<"x">>), (<<"s">>), 0>>, <<(<<"y">>), (<<"s">>), 0>>,
     <<(<<"x">>), None, 0>>, <<(<<"x">>), (<<"s">>), 12>>}

\* Blank, short, and long with surrounding whitespace
CtxDocs == {<<" ">>, <<"a">>, <<" ", "b", "b", "b", "\n">>}

CtxElems ==
    {Result(k[1], k[2], k[3], d) : k \in CtxKeys, d \in CtxDocs}
        \cup {Result(<<"y">>, None, NoneInt, None), NonDict}

CtxBudgets == {0 - 1, 23, 25, 48, 74}

SeqsUpTo(S, n) == UNION {[1..m -> S] : m \in 0..n}

InitContext ==
    /\ ctx \in [pc : {"call"}, chunks : SeqsUpTo(CtxElems, MaxChunks),
                max_chars : CtxBudgets]
    /\ chk = Idle /\ cit = Idle /\ rtv = Idle /\ ans = Idle
    /\ nrm = Idle /\ pdf = Idle /\ ing = Idle /\ shm = Idle

\* The call runs to its return
BuildContext ==
    /\ ctx.pc = "call"
    /\ ctx' = [pc |-> "done", chunks |-> ctx.chunks, max_chars |-> ctx.max_chars,
               out |-> build_context(ctx.chunks, ctx.max_chars)]
    /\ UNCHANGED <<chk, cit, rtv, ans, others>>

NextContext == BuildContext

SpecContext == InitContext /\ [][NextContext]_vars

(***************************************************************************)
(* Claims about build_context                                              *)
(***************************************************************************)

\* The block a result contributes when it is used
BlockOf(chunk) == Block(chunk.source, chunk.chunk, DocOf(chunk))

RECURSIVE BlocksOf(_)
BlocksOf(results) ==
    IF results = <<>> THEN <<>>
    ELSE BlockOf(Head(results)) \o BlocksOf(Tail(results))

\* Input positions left after dropping non-dicts and repeats of an earlier
\* key, and then results whose text is blank
Candidates(chunks) ==
    {i \in 1..Len(chunks) :
        /\ chunks[i].isdict
        /\ \A j \in 1..(i - 1) :
              chunks[j].isdict => KeyOf(chunks[j]) # KeyOf(chunks[i])
        /\ DocOf(chunks[i]) # <<>>}

RECURSIVE TotalLen(_, _)
\* Cumulative block length of the results at the positions P
TotalLen(chunks, P) ==
    IF P = {} THEN 0
    ELSE LET i == CHOOSE x \in P : TRUE
         IN  Len(BlockOf(chunks[i])) + TotalLen(chunks, P \ {i})

Range(f) == {f[k] : k \in DOMAIN f}

CtxDone == ctx.pc = "done"

\* C1: the context string is at most max(0, maxChars) long and is the
\* concatenation of the blocks of exactly the used results.
C1_ContextWithinBudget ==
    CtxDone =>
        /\ Len(ctx.out.context) <= Max(0, ctx.max_chars)
        /\ ctx.out.context = BlocksOf(ctx.out.used_chunks)

\* Two results used, filling the budget exactly, and a third left out
C1_Witness ==
    /\ CtxDone
    /\ Len(ctx.out.used_chunks) = 2
    /\ Len(ctx.out.context) = ctx.max_chars
    /\ Cardinality(Candidates(ctx.chunks)) = 3

\* C2: strict prefix truncation.  The used results are the longest prefix of
\* the candidates (input order, key repeats and blank results removed) whose
\* cumulative block length fits the budget; nothing after the first
\* overflowing block is used.
C2_StrictPrefix ==
    CtxDone =>
        LET used == Range(ctx.out.used_at)
            cand == Candidates(ctx.chunks)
            budget == Max(0, ctx.max_chars)
            rest == cand \ used
        IN  /\ Len(ctx.out.used_at) = Len(ctx.out.used_chunks)
            /\ \A k \in 1..Len(ctx.out.used_at) :
                  ctx.out.used_chunks[k] = ctx.chunks[ctx.out.used_at[k]]
            /\ \A k \in 1..(Len(ctx.out.used_at) - 1) :
                  ctx.out.used_at[k] < ctx.out.used_at[k + 1]
            /\ used \subseteq cand
            /\ \A i \in used : \A j \in cand : j < i => j \in used
            /\ TotalLen(ctx.chunks, used) <= budget
            /\ rest # {} =>
                  LET next == CHOOSE i \in rest : \A j \in rest : i <= j
                  IN  TotalLen(ctx.chunks, used) + Len(BlockOf(ctx.chunks[next]))
                          > budget

\* A block overflowed after one was used, and a later, shorter block that
\* would still have fitted was not used
C2_Witness ==
    /\ CtxDone
    /\ ctx.out.used_at # <<>>
    /\ \E j \in Candidates(ctx.chunks) \ Range(ctx.out.used_at) :
          TotalLen(ctx.chunks, Range(ctx.out.used_at))
              + Len(BlockOf(ctx.chunks[j])) <= ctx.max_chars

\* C3: no two used results share an (id, source, chunk) key; a used result is
\* the first input result with its key; used results keep the input order.
C3_DedupByKey ==
    CtxDone =>
        /\ \A a, b \in 1..Len(ctx.out.used_chunks) :
              a # b => KeyOf(ctx.out.used_chunks[a]) # KeyOf(ctx.out.used_chunks[b])
        /\ \A k \in 1..Len(ctx.out.used_at) :
              /\ ctx.out.used_chunks[k] = ctx.chunks[ctx.out.used_at[k]]
              /\ \A j \in 1..(ctx.out.used_at[k] - 1) :
                    ctx.chunks[j].isdict =>
                        KeyOf(ctx.chunks[j]) # KeyOf(ctx.chunks[ctx.out.used_at[k]])
        /\ \A a, b \in 1..Len(ctx.out.used_at) :
              a < b => ctx.out.used_at[a] < ctx.out.used_at[b]

\* Two results with one key and different text: the first is used, the
\* second is not, and a result with another key is used after them
C3_Witness ==
    /\ CtxDone
    /\ \E i, j, k \in 1..Len(ctx.chunks) :
          /\ i < j /\ j < k
          /\ ctx.chunks[i].isdict /\ ctx.chunks[j].isdict
          /\ KeyOf(ctx.chunks[i]) = KeyOf(ctx.chunks[j])
          /\ DocOf(ctx.chunks[j]) # <<>>
          /\ ctx.chunks[i] # ctx.chunks[j]
          /\ ctx.out.used_at = <<i, k>>

(***************************************************************************)
(* chunk_text (src/ingest.py)                                              *)
(***************************************************************************)

\* Default chunk_chars
DefaultChunkChars == 1200

\* Default overlap_chars
DefaultOverlapChars == 200

\* not text or not text.strip()
IsBlank(text) == strip(text) = <<>>

KeepSegment_always(segment) == TRUE

\* if (segment)
KeepSegment(segment) == segment # <<>>

\* The state at the top of the while loop.  windows and spans are history:
\* the start offset of every window taken, and for every chunk kept the
\* offsets [from, to) of the original text that it is.
ck_enter(chunk_chars, overlap_chars) ==
    [i |-> 0, step_size |-> Max(1, chunk_chars - overlap_chars),
     chunks |-> <<>>, windows |-> <<>>, spans |-> <<>>]

\* One iteration of the while loop
ck_iteration(st, text, chunk_chars) ==
    LET j == st.i + chunk_chars
        window == Slice(text, st.i, j)
        segment == strip(window)
        kept == KeepSegment(segment)
    IN  [st EXCEPT
            !.chunks = IF kept THEN Append(@, segment) ELSE @,
            !.spans = IF kept
                      THEN Append(@, <<st.i + LStripAt(window),
                                       st.i + RStripAt(window)>>)
                      ELSE @,
            !.windows = Append(@, st.i),
            !.i = @ + st.step_size]

RECURSIVE ck_loop(_, _, _)
\* while (i < len(text)): ...
ck_loop(st, text, chunk_chars) ==
    IF st.i < Len(text) THEN ck_loop(ck_iteration(st, text, chunk_chars), text, chunk_chars)
    ELSE st

\* chunk_text(text, chunk_chars, overlap_chars)
chunk_text(text, chunk_chars, overlap_chars) ==
    IF IsBlank(text) THEN <<>>
    ELSE IF Len(text) <= chunk_chars THEN <<strip(text)>>
    ELSE ck_loop(ck_enter(chunk_chars, overlap_chars), text, chunk_chars).chunks

(***************************************************************************)
(* Specification of chunk_text: a call, one loop iteration per step        *)
(***************************************************************************)

\* Longest text of the small calls
MaxTextLen == 5

\* Largest chunk_chars of the small calls
MaxChunkChars == 3

ChunkAlphabet == {"a", "b", " "}

HelloUnit == <<"H", "e", "l", "l", "o", " ", "w", "o", "r", "l", "d", ".", " ">>

\* "Hello world. " * 200
HelloText == [k \in 1..(Len(HelloUnit) * 200) |-> HelloUnit[((k - 1) % Len(HelloUnit)) + 1]]

\* The calls: every small text with every chunk_chars > overlap_chars >= 0,
\* and the 2600-character text with the defaults
ChunkCalls ==
    {[text |-> t, chunk_chars |-> c, overlap_chars |-> o] :
        t \in SeqsUpTo(ChunkAlphabet, MaxTextLen),
        c \in 1..MaxChunkChars, o \in 0..(MaxChunkChars - 1)}
    \cup {[text |-> HelloText, chunk_chars |-> DefaultChunkChars,
           overlap_chars |-> DefaultOverlapChars]}

InitChunk ==
    /\ \E call \in ChunkCalls :
          /\ call.chunk_chars > call.overlap_chars
          /\ chk = [pc |-> "call", text |-> call.text, chunk_chars |-> call.chunk_chars,
                    overlap_chars |-> call.overlap_chars,
                    st |-> ck_enter(call.chunk_chars, call.overlap_chars)]
    /\ ctx = Idle /\ cit = Idle /\ rtv = Idle /\ ans = Idle
    /\ nrm = Idle /\ pdf = Idle /\ ing = Idle /\ shm = Idle

\* The early returns, or entry into the loop
ChunkCall ==
    /\ chk.pc = "call"
    /\ chk' = IF IsBlank(chk.text) THEN [chk EXCEPT !.pc = "done"]
              ELSE IF Len(chk.text) <= chk.chunk_chars
              THEN [chk EXCEPT !.pc = "done", !.st.chunks = <<strip(chk.text)>>,
                               !.st.spans = <<(<<LStripAt(chk.text), RStripAt(chk.text)>>)>>]
              ELSE [chk EXCEPT !.pc = "loop"]
    /\ UNCHANGED <<ctx, cit, rtv, ans, others>>

\* One pass through the loop body
ChunkLoop ==
    /\ chk.pc = "loop"
    /\ chk.st.i < Len(chk.text)
    /\ chk' = [chk EXCEPT !.st = ck_iteration(chk.st, chk.text, chk.chunk_chars)]
    /\ UNCHANGED <<ctx, cit, rtv, ans, others>>

\* The loop condition fails: return chunks
ChunkReturn ==
    /\ chk.pc = "loop"
    /\ ~(chk.st.i < Len(chk.text))
    /\ chk' = [chk EXCEPT !.pc = "done"]
    /\ UNCHANGED <<ctx, cit, rtv, ans, others>>

NextChunk == ChunkCall \/ ChunkLoop \/ ChunkReturn

SpecChunk == InitChunk /\ [][NextChunk]_vars

\* The call is one thread of control: it takes its next step
FairSpecChunk == SpecChunk /\ WF_vars(NextChunk)

(***************************************************************************)
(* Claims about chunk_text                                                 *)
(***************************************************************************)

ChunkDone == chk.pc = "done"

\* What a finished call returned
ChunkResultOk ==
    ChunkDone =>
        /\ \A n \in 1..Len(chk.st.chunks) :
              /\ strip(chk.st.chunks[n]) # <<>>
              /\ Len(chk.st.chunks[n]) <= chk.chunk_chars
        /\ IsBlank(chk.text) => chk.st.chunks = <<>>
        /\ (~IsBlank(chk.text) /\ Len(chk.text) <= chk.chunk_chars) =>
              chk.st.chunks = <<SubSeq(chk.text, LStripAt(chk.text) + 1,
                                       RStripAt(chk.text))>>

\* C4: for chunk_size > overlap >= 0 chunk_text terminates; every chunk is
\* non-empty after trimming and at most chunk_size long; blank text yields
\* no chunk; text no longer than chunk_size yields its trimmed self alone.
C4_ChunkText == []ChunkResultOk /\ <>ChunkDone

\* A loop that dropped an all-blank window and returned several chunks
C4_Witness ==
    /\ ChunkDone
    /\ Len(chk.st.windows) > Len(chk.st.chunks)
    /\ Len(chk.st.chunks) >= 2

\* Characters of the original text that chunks n and n + 1 both hold
Shared(n) ==
    Max(0, Min(chk.st.spans[n][2], chk.st.spans[n + 1][2])
              - Max(chk.st.spans[n][1], chk.st.spans[n + 1][1]))

\* chunk_size - step_size, clamped at the text end, for windows n and n + 1
\* (n counted from 1) starting at (n - 1) * step_size and n * step_size
WindowOverlap(n) ==
    Max(0, Min((n - 1) * chk.st.step_size + chk.chunk_chars, Len(chk.text))
              - n * chk.st.step_size)

\* C5: for text longer than chunk_size the n-th window starts at
\* n * step_size and consecutive chunks overlap by exactly
\* chunk_size - step_size characters of the original text (clamped at the
\* text end); the 2600-character "Hello world. " text with 1200/200 yields
\* 3 chunks, the first two sharing 200 characters.
C5_ExactOverlap ==
    (ChunkDone /\ Len(chk.text) > chk.chunk_chars) =>
        /\ \A n \in 1..Len(chk.st.windows) :
              chk.st.windows[n] = (n - 1) * chk.st.step_size
        /\ \A n \in 1..(Len(chk.st.chunks) - 1) : Shared(n) = WindowOverlap(n)
        /\ chk.text = HelloText =>
              /\ Len(chk.st.chunks) = 3
              /\ Shared(1) = DefaultOverlapChars

(***************************************************************************)
(* label_sources and render_answer_with_citations (src/retriever.py)       *)
(***************************************************************************)

IsNewSource_always(source, labels) == TRUE

\* source not in labels
IsNewSource(source, labels) == source \notin DOMAIN labels

RECURSIVE ls_loop(_, _, _)
\* for chunk in chunks: ..., over what is left of chunks; labels is the dict
ls_loop(labels, label_num, chunks) ==
    IF chunks = <<>> THEN labels
    ELSE LET source == Head(chunks).source
         IN  IF IsNewSource(source, labels)
             THEN ls_loop([s \in DOMAIN labels \cup {source} |->
                              IF s = source THEN label_num ELSE labels[s]],
                          label_num + 1, Tail(chunks))
             ELSE ls_loop(labels, label_num, Tail(chunks))

\* label_sources(chunks), for chunks a list
label_sources(chunks) == ls_loop([s \in {} |-> 0], 1, chunks)

\* One line of the Sources section
SourceLine(label, source, chunk_index) ==
    <<"[">> \o IntToStr(label) \o <<"]", " ">> \o FmtText(source)
        \o <<" ", "(", "c", "h", "u", "n", "k", " ">> \o FmtInt(chunk_index) \o <<")">>

RECURSIVE rc_loop(_, _, _, _)
\* for chunk in used_chunks: ..., over what is left of used_chunks
rc_loop(lines, seen, mapping_sources, used_chunks) ==
    IF used_chunks = <<>> THEN lines
    ELSE LET chunk == Head(used_chunks)
         IN  IF chunk.source \in seen
             THEN rc_loop(lines, seen, mapping_sources, Tail(used_chunks))
             ELSE rc_loop(Append(lines, SourceLine(mapping_sources[chunk.source],
                                                   chunk.source, chunk.chunk)),
                          seen \cup {chunk.source}, mapping_sources, Tail(used_chunks))

\* The list lines at the return
render_lines(answer_text, used_chunks) ==
    rc_loop(<<rstrip(answer_text), <<>>, <<"S", "o", "u", "r", "c", "e", "s", ":">>>>,
            {}, label_sources(used_chunks), used_chunks)

RECURSIVE JoinLines(_)
\* "\n".join(lines)
JoinLines(lines) ==
    IF Len(lines) <= 1 THEN Join(lines)
    ELSE Head(lines) \o <<"\n">> \o JoinLines(Tail(lines))

\* render_answer_with_citations(answer_text, used_chunks), for used_chunks a
\* list; answer_text = None raises ValueError.
render_answer_with_citations(answer_text, used_chunks) ==
    IF answer_text = None THEN [error |-> "ValueError"]
    ELSE [error |-> "none", text |-> JoinLines(render_lines(answer_text, used_chunks))]

(***************************************************************************)
(* Specification of the citation renderer: a call with any bounded input   *)
(***************************************************************************)

\* Longest used_chunks of a render call
MaxUsed == 3

CiteElems ==
    {Result(<<"x">>, src, c, <<"d">>) :
        src \in {<<"a">>, <<"b", "b">>, None}, c \in {0, 3, NoneInt}}

CiteAnswers == {None, <<"o", "k">>, <<"o", "k", " ", "\n">>}

InitCite ==
    /\ cit \in [pc : {"call"}, answer_text : CiteAnswers,
                used_chunks : SeqsUpTo(CiteElems, MaxUsed)]
    /\ ctx = Idle /\ chk = Idle /\ rtv = Idle /\ ans = Idle
    /\ nrm = Idle /\ pdf = Idle /\ ing = Idle /\ shm = Idle

\* The call runs to its return or its raise; labels and lines are the values
\* of mapping_sources and lines at the return
RenderCitations ==
    /\ cit.pc = "call"
    /\ LET out == render_answer_with_citations(cit.answer_text, cit.used_chunks)
       IN  cit' = IF out.error = "none"
                  THEN [pc |-> "done", answer_text |-> cit.answer_text,
                        used_chunks |-> cit.used_chunks,
                        labels |-> label_sources(cit.used_chunks),
                        lines |-> render_lines(cit.answer_text, cit.used_chunks),
                        text |-> out.text]
                  ELSE [pc |-> "raised", answer_text |-> cit.answer_text,
                        used_chunks |-> cit.used_chunks, error |-> out.error]
    /\ UNCHANGED <<ctx, chk, rtv, ans, others>>

NextCite == RenderCitations

SpecCite == InitCite /\ [][NextCite]_vars

(***************************************************************************)
(* Claims about the citation renderer                                      *)
(***************************************************************************)

\* Positions of used_chunks at which a source is seen for the first time
FirstSeen(used) ==
    {i \in 1..Len(used) : \A j \in 1..(i - 1) : used[j].source # used[i].source}

\* The k-th position of FirstSeen(used), counted from 1
FirstSeenAt(used, k) ==
    CHOOSE i \in FirstSeen(used) :
        Cardinality({p \in FirstSeen(used) : p <= i}) = k

\* C6: with N distinct sources, label_sources gives exactly the labels 1..N
\* in first-seen order, and the Sources section lists each distinct source
\* once, in first-seen order, with its label and the chunk index of its
\* first-seen result.
C6_CitationLabels ==
    cit.pc = "done" =>
        LET used == cit.used_chunks
            N == Cardinality({used[i].source : i \in 1..Len(used)})
        IN  /\ DOMAIN cit.labels = {used[i].source : i \in 1..Len(used)}
            /\ {cit.labels[s] : s \in DOMAIN cit.labels} = 1..N
            /\ \A k \in 1..N : cit.labels[used[FirstSeenAt(used, k)].source] = k
            /\ Len(cit.lines) = 3 + N
            /\ \A k \in 1..N :
                  cit.lines[3 + k] =
                      <<"[">> \o IntToStr(k) \o <<"]", " ">>
                          \o FmtText(used[FirstSeenAt(used, k)].source)
                          \o <<" ", "(", "c", "h", "u", "n", "k", " ">>
                          \o FmtInt(used[FirstSeenAt(used, k)].chunk) \o <<")">>
            /\ cit.text = JoinLines(cit.lines)

\* Three results, two sources: the first source comes back third with
\* another chunk index
C6_Witness ==
    /\ cit.pc = "done"
    /\ Len(cit.used_chunks) = 3
    /\ cit.used_chunks[1].source = cit.used_chunks[3].source
    /\ cit.used_chunks[1].source # cit.used_chunks[2].source
    /\ cit.used_chunks[1].chunk # cit.used_chunks[3].chunk
    /\ Len(cit.lines) = 5

(***************************************************************************)
(* retrieve_chunks (src/retriever.py)                                      *)
(*                                                                         *)
(* A distance or score is an integer count of 1/DistUnit: DistUnit is the  *)
(* float 1.0.  A query response is a record                                *)
(*   documents: whether result["documents"] is there and non-empty         *)
(*   hits:      the zipped (document, metadata, distance) triples          *)
(*   ids:       [given, list], given = FALSE when result.get("ids") is     *)
(*              absent or empty                                            *)
(* and a metadata is [isnone, source, chunk, type], isnone for None.       *)
(***************************************************************************)

\* Fixed-point resolution of distances and scores
DistUnit == 2

\* not query or not str(query).strip()
IsBlankQuery(query) == query = None \/ IsBlank(query)

\* if score < 0.0: score = 0.0; if score > 1.0: score = 1.0
Clamp(x) == IF x < 0 THEN 0 ELSE IF x > DistUnit THEN DistUnit ELSE x

\* score = 1.0 - dist, clamped
ScoreOf(distance) == Clamp(DistUnit - distance)

\* ids_: ids_matrix[0] if ids_matrix else [None] * len(docs)
IdsOf(response) ==
    IF response.ids.given THEN response.ids.list
    ELSE [i \in 1..Len(response.hits) |-> None]

\* f"{metadata.get('source')}-{metadata.get('chunk')}"
FallbackId(metadata) == FmtText(metadata.source) \o <<"-">> \o FmtInt(metadata.chunk)

\* _id for the hit at position i (1-based)
IdAt(response, i) ==
    IF i <= Len(IdsOf(response)) THEN IdsOf(response)[i]
    ELSE FallbackId(response.hits[i].metadata)

\* The id expression raises AttributeError: the fallback reads a None metadata
IdRaises(response, i) ==
    i > Len(IdsOf(response)) /\ response.hits[i].metadata.isnone

\* The record appended for the hit at position i
RecordAt(response, i) ==
    LET hit == response.hits[i]
    IN  [isdict |-> TRUE, document |-> hit.document, source |-> hit.metadata.source,
         chunk |-> hit.metadata.chunk, type |-> hit.metadata.type,
         id |-> IdAt(response, i), distance |-> hit.distance,
         score |-> ScoreOf(hit.distance)]

RECURSIVE InsertByDistance(_, _)
\* r placed after every record whose distance is not greater (list.sort is stable)
InsertByDistance(sorted, r) ==
    IF sorted = <<>> THEN <<r>>
    ELSE IF Head(sorted).distance <= r.distance
         THEN <<Head(sorted)>> \o InsertByDistance(Tail(sorted), r)
         ELSE <<r>> \o sorted

RECURSIVE SortFrom(_, _)
SortFrom(sorted, records) ==
    IF records = <<>> THEN sorted
    ELSE SortFrom(InsertByDistance(sorted, Head(records)), Tail(records))

SortByDistance_none(records) == records

\* records.sort(key=lambda r: r["distance"])
SortByDistance(records) == SortFrom(<<>>, records)

\* What retrieve_chunks does with the store's response
records_of(response) ==
    IF ~response.documents THEN [error |-> "none", records |-> <<>>]
    ELSE IF \E i \in 1..Len(response.hits) : IdRaises(response, i)
    THEN [error |-> "AttributeError"]
    ELSE [error |-> "none",
          records |-> SortByDistance([i \in 1..Len(response.hits) |->
                                         RecordAt(response, i)])]

\* k = max(1, int(k))
EffectiveK(k) == Max(1, k)

(***************************************************************************)
(* Specification of retrieve_chunks: the call, the store's answer, the     *)
(* records                                                                 *)
(***************************************************************************)

\* Most hits a response of the store carries
MaxHits == 2

Queries == {None, <<" ">>, <<"q">>}

NoMetadata == [isnone |-> TRUE, source |-> None, chunk |-> NoneInt, type |-> None]

Metadata(source, chunk) ==
    [isnone |-> FALSE, source |-> source, chunk |-> chunk, type |-> <<"p", "d", "f">>]

Metadatas ==
    {Metadata(<<"a">>, 0), Metadata(<<"a">>, 1), Metadata(<<"b">>, 0), NoMetadata}

\* Raw distances from below 0 to above 1
Distances == (0 - 1)..(DistUnit + 1)

Hits == [document : {<<"d">>}, metadata : Metadatas, distance : Distances]

\* The identifier the store holds for position i
StoreId(i) == <<"i", "d">> \o IntToStr(i)

\* ids absent, or a list of any length up to the number of hits
IdsChoices(n) ==
    {[given |-> FALSE, list |-> <<>>]}
        \cup {[given |-> TRUE, list |-> [i \in 1..m |-> StoreId(i)]] : m \in 0..n}

\* The responses collection.query can give to a request for n_results
Responses(HitSet, n_results) ==
    {[documents |-> TRUE, hits |-> h, ids |-> ids] :
        h \in SeqsUpTo(HitSet, Min(MaxHits, n_results)),
        ids \in IdsChoices(MaxHits)}

\* The response without documents
EmptyResponse ==
    [documents |-> FALSE, hits |-> <<>>, ids |-> [given |-> FALSE, list |-> <<>>]]

InitRetrieve ==
    /\ rtv \in [pc : {"call"}, query : Queries, k : 0..MaxHits]
    /\ ctx = Idle /\ chk = Idle /\ cit = Idle /\ ans = Idle
    /\ nrm = Idle /\ pdf = Idle /\ ing = Idle /\ shm = Idle

\* A blank query raises ValueError
RetrieveRejects ==
    /\ rtv.pc = "call"
    /\ IsBlankQuery(rtv.query)
    /\ rtv' = [rtv EXCEPT !.pc = "raised"] @@ [error |-> "ValueError"]
    /\ UNCHANGED <<ctx, chk, cit, ans, others>>

\* collection.query answers with hits
StoreAnswers ==
    /\ rtv.pc = "call"
    /\ ~IsBlankQuery(rtv.query)
    /\ \E response \in Responses(Hits, EffectiveK(rtv.k)) :
          /\ Len(response.ids.list) <= Len(response.hits)
          /\ rtv' = [rtv EXCEPT !.pc = "queried"] @@ [response |-> response]
    /\ UNCHANGED <<ctx, chk, cit, ans, others>>

\* collection.query answers without documents
StoreAnswersNothing ==
    /\ rtv.pc = "call"
    /\ ~IsBlankQuery(rtv.query)
    /\ rtv' = [rtv EXCEPT !.pc = "queried"] @@ [response |-> EmptyResponse]
    /\ UNCHANGED <<ctx, chk, cit, ans, others>>

\* The records are built and sorted, or the id expression raises
RetrieveReturns ==
    /\ rtv.pc = "queried"
    /\ LET out == records_of(rtv.response)
       IN  rtv' = IF out.error = "none"
                  THEN [rtv EXCEPT !.pc = "done"] @@ [records |-> out.records]
                  ELSE [rtv EXCEPT !.pc = "raised"] @@ [error |-> out.error]
    /\ UNCHANGED <<ctx, chk, cit, ans, others>>

NextRetrieve ==
    RetrieveRejects \/ StoreAnswers \/ StoreAnswersNothing \/ RetrieveReturns

SpecRetrieve == InitRetrieve /\ [][NextRetrieve]_vars

(***************************************************************************)
(* Claims about retrieve_chunks                                            *)
(***************************************************************************)

RetrieveDone == rtv.pc = "done"

\* C9: when the response carries no identifiers, every returned record has
\* the fallback identifier "<source>-<chunk>" of its metadata, and none has
\* an absent identifier.
C9_FallbackIds ==
    (RetrieveDone /\ ~rtv.response.ids.given) =>
        \A n \in 1..Len(rtv.records) :
            /\ rtv.records[n].id # None
            /\ rtv.records[n].id =
                  FmtText(rtv.records[n].source) \o <<"-">> \o FmtInt(rtv.records[n].chunk)

\* C10: the records come back in non-decreasing order of raw distance, one
\* per hit, each with score = clamp(1 - distance, 0, 1); so every score is in
\* [0, 1] and the scores are non-increasing.
C10_SortedAndScored ==
    RetrieveDone =>
        /\ Len(rtv.records) = Len(rtv.response.hits)
        /\ \A d \in Distances :
              Cardinality({n \in 1..Len(rtv.records) : rtv.records[n].distance = d})
                  = Cardinality({i \in 1..Len(rtv.response.hits) :
                                    rtv.response.hits[i].distance = d})
        /\ \A n \in 1..Len(rtv.records) :
              LET r == rtv.records[n]
              IN  /\ r.score = Max(0, Min(DistUnit, DistUnit - r.distance))
                  /\ 0 <= r.score /\ r.score <= DistUnit
        /\ \A n \in 1..(Len(rtv.records) - 1) :
              /\ rtv.records[n].distance <= rtv.records[n + 1].distance
              /\ rtv.records[n].score >= rtv.records[n + 1].score

\* The store's hits came worst first, one below distance 0 and one above 1
C10_Witness ==
    /\ RetrieveDone
    /\ Len(rtv.records) = 2
    /\ rtv.response.hits[1].distance > DistUnit
    /\ rtv.response.hits[2].distance < 0
    /\ rtv.records[1].score = DistUnit
    /\ rtv.records[2].score = 0

(***************************************************************************)
(* make_prompt, call_llm and answer (src/retriever.py)                     *)
(***************************************************************************)

\* The text of DEFAULT_SYSTEM, as one token
DEFAULT_SYSTEM == <<"<DEFAULT_SYSTEM>">>

\* The text of PERSONA, as one token
PERSONA == <<"<PERSONA>">>

\* Default max_context_chars of answer
DefaultMaxContextChars == 6000

\* x or ""
OrEmpty(x) == IF x = None THEN <<>> ELSE x

\* make_prompt(query, context, system_msg)
make_prompt(query, context, system_msg) ==
    IF OrEmpty(query) = <<>> THEN [error |-> "ValueError"]
    ELSE IF OrEmpty(context) = <<>> THEN [error |-> "ValueError"]
    ELSE IF strip(query) = <<>> THEN [error |-> "ValueError"]
    ELSE IF strip(context) = <<>> THEN [error |-> "ValueError"]
    ELSE LET sys == IF strip(OrEmpty(system_msg)) = <<>> THEN DEFAULT_SYSTEM
                    ELSE strip(OrEmpty(system_msg))
         IN  [error |-> "none",
              prompt |-> sys \o <<"\n", "\n", "C", "o", "n", "t", "e", "x", "t", ":", "\n">>
                          \o strip(context)
                          \o <<"\n", "\n", "Q", "u", "e", "s", "t", "i", "o", "n", ":", " ">>
                          \o strip(query)
                          \o <<"\n", "A", "n", "s", "w", "e", "r", ":">>]

\* What requests.post and the decoding of its body give call_llm: a failure
\* (connection error, timeout, HTTP error status, malformed body), or the
\* text field of the body, which may be None
TransportFailure == [ok |-> FALSE, text |-> None]

TransportReply(text) == [ok |-> TRUE, text |-> text]

\* call_llm(prompt) with the credential present or not and the transport
\* answering reply; every exception leaves as RuntimeError
call_llm(groq_key, reply) ==
    IF ~reply.ok THEN [error |-> "RuntimeError"]
    ELSE IF groq_key THEN [error |-> "none", text |-> strip(OrEmpty(reply.text))]
    ELSE IF strip(OrEmpty(reply.text)) = <<>> THEN [error |-> "RuntimeError"]
    ELSE [error |-> "none", text |-> strip(OrEmpty(reply.text))]

NoOutput_never(raw) == FALSE

\* not raw or not str(raw).strip()
NoOutput(raw) == strip(raw) = <<>>

\* The compact sources list of the result
SourcesOf(used) ==
    [n \in 1..Len(used) |->
        [source |-> used[n].source, chunk |-> used[n].chunk,
         score |-> used[n].score, id |-> used[n].id]]

\* The final answer text
FinalOf(raw, used, with_citations) ==
    IF with_citations THEN render_answer_with_citations(raw, used).text
    ELSE strip(raw)

(***************************************************************************)
(* Specification of answer: one call, stage by stage                       *)
(***************************************************************************)

NoResult == [returned |-> FALSE]

NoError == [stage |-> "none", type |-> "none"]

\* The hits the store can answer an answer call with
AnswerHits ==
    [document : {<<"d">>, <<" ">>},
     metadata : {Metadata(<<"a">>, 0), Metadata(<<"b">>, 0), NoMetadata},
     distance : {0, DistUnit + 1}]

\* The texts the model can answer with
ModelTexts == {None, <<" ">>, <<"o", "k">>, <<" ", "n", "o", "\n">>}

InitAnswer ==
    /\ ans \in [pc : {"call"}, query : Queries, k : {0, MaxHits},
                max_context_chars : {24, DefaultMaxContextChars},
                system_msg : {DEFAULT_SYSTEM, <<"c">>},
                with_citations : BOOLEAN, groq_key : BOOLEAN,
                response : {EmptyResponse}, chunks : {<<>>}, context : {<<>>},
                used : {<<>>}, prompt : {<<>>}, reply : {TransportFailure},
                raw : {<<>>}, result : {NoResult}, error : {NoError}]
    /\ ctx = Idle /\ chk = Idle /\ cit = Idle /\ rtv = Idle
    /\ nrm = Idle /\ pdf = Idle /\ ing = Idle /\ shm = Idle

Raise(stage, type) == [ans EXCEPT !.pc = "raised", !.error = [stage |-> stage, type |-> type]]

\* if not query or not str(query).strip(): raise ValueError
AnswerRejects ==
    /\ ans.pc = "call"
    /\ IsBlankQuery(ans.query)
    /\ ans' = Raise("query", "ValueError")
    /\ UNCHANGED <<ctx, chk, cit, rtv, others>>

\* chunks = retrieve_chunks(query, k=k, col_name=col_name)
AnswerRetrieves ==
    /\ ans.pc = "call"
    /\ ~IsBlankQuery(ans.query)
    /\ \E response \in Responses(AnswerHits, EffectiveK(ans.k)) \cup {EmptyResponse} :
          /\ Len(response.ids.list) <= Len(response.hits)
          /\ LET out == records_of(response)
             IN  ans' = IF out.error = "none"
                        THEN [ans EXCEPT !.pc = "retrieved", !.response = response,
                                         !.chunks = out.records]
                        ELSE [Raise("retrieve", out.error) EXCEPT !.response = response]
    /\ UNCHANGED <<ctx, chk, cit, rtv, others>>

\* context, used = build_context(chunks, max_chars=max_context_chars)
\* prompt = make_prompt(query, context, system_msg=PERSONA)
AnswerPrompts ==
    /\ ans.pc = "retrieved"
    /\ LET built == build_context(ans.chunks, ans.max_context_chars)
           made == make_prompt(ans.query, built.context, PERSONA)
       IN  ans' = IF made.error = "none"
                  THEN [ans EXCEPT !.pc = "prompted", !.context = built.context,
                                   !.used = built.used_chunks, !.prompt = made.prompt]
                  ELSE [Raise("prompt", made.error) EXCEPT
                            !.context = built.context, !.used = built.used_chunks]
    /\ UNCHANGED <<ctx, chk, cit, rtv, others>>

\* raw = call_llm(prompt), the transport failing or answering with any text
AnswerCallsLLM ==
    /\ ans.pc = "prompted"
    /\ \E reply \in {TransportFailure} \cup {TransportReply(t) : t \in ModelTexts} :
          LET out == call_llm(ans.groq_key, reply)
          IN  ans' = IF out.error = "none"
                     THEN [ans EXCEPT !.pc = "generated", !.reply = reply, !.raw = out.text]
                     ELSE [Raise("llm", out.error) EXCEPT !.reply = reply]
    /\ UNCHANGED <<ctx, chk, cit, rtv, others>>

\* The check of raw, the rendering and the return
AnswerReturns ==
    /\ ans.pc = "generated"
    /\ ans' = IF NoOutput(ans.raw) THEN Raise("output", "RuntimeError")
              ELSE [ans EXCEPT !.pc = "done",
                               !.result = [returned |-> TRUE,
                                           answer |-> FinalOf(ans.raw, ans.used,
                                                              ans.with_citations),
                                           prompt |-> ans.prompt,
                                           sources |-> SourcesOf(ans.used)]]
    /\ UNCHANGED <<ctx, chk, cit, rtv, others>>

NextAnswer ==
    AnswerRejects \/ AnswerRetrieves \/ AnswerPrompts \/ AnswerCallsLLM \/ AnswerReturns

SpecAnswer == InitAnswer /\ [][NextAnswer]_vars

(***************************************************************************)
(* Claims about answer                                                     *)
(***************************************************************************)

AnswerEnded == ans.pc \in {"done", "raised"}

\* retrieve_chunks returned, and returned no record
RetrievedNothing ==
    /\ ans.pc # "call"
    /\ ans.error.stage \notin {"query", "retrieve"}
    /\ ans.chunks = <<>>

\* call_llm was called
LLMCalled ==
    \/ ans.pc \in {"generated", "done"}
    \/ ans.pc = "raised" /\ ans.error.stage \in {"llm", "output"}

\* The transport failed, or the model's text is empty after trimming
LLMGaveNothing == ~ans.reply.ok \/ strip(OrEmpty(ans.reply.text)) = <<>>

\* C7: on an empty collection, answer with a non-blank query does not fail
\* because retrieval found nothing: the context is empty, a failure can only
\* be the model's, and a returned result has an empty sources list and the
\* model's output as its answer text.
C7_EmptyCollectionAnswers ==
    (AnswerEnded /\ ~IsBlankQuery(ans.query) /\ RetrievedNothing) =>
        /\ ans.context = <<>>
        /\ ans.pc = "raised" => ans.error.stage \in {"llm", "output"}
        /\ ans.pc = "done" =>
              /\ ans.result.sources = <<>>
              /\ ans.result.answer = FinalOf(ans.raw, <<>>, ans.with_citations)

ReplaceNbsp(text) ==
    [k \in 1..Len(text) |-> IF text[k] = "NBSP" THEN " " ELSE text[k]]

\* \s of a str pattern: the Unicode whitespace class
IsRegexSpace(c) == IsSpace(c)

StartsMatch_each(s, k) == TRUE

\* \s+ is greedy: a match starts at a whitespace character that does not
\* follow another one, and takes the whole run
StartsMatch(s, k) == k = 1 \/ ~IsRegexSpace(s[k - 1])

\* re.sub(r"\s+", " ", s): every maximal run of whitespace becomes one space
sub_spaces(s) ==
    LET marked == [k \in 1..Len(s) |->
                     IF IsRegexSpace(s[k])
                         THEN [char |-> " ", keep |-> StartsMatch(s, k)]
                         ELSE [char |-> s[k], keep |-> TRUE]]
        IsKept(e) == e.keep
        kept == SelectSeq(marked, IsKept)
    IN  [k \in 1..Len(kept) |-> kept[k].char]

\* clean_text(text); text is a string or None
clean_text(text) ==
    IF text = None \/ text = <<>> THEN <<>>
    ELSE sub_spaces(ReplaceNbsp(text))

\* Longest text given to clean_text
MaxCleanLen == 4

CleanAlphabet == {"a", " ", "\n", "NBSP"}

CleanTexts == SeqsUpTo(CleanAlphabet, MaxCleanLen) \cup {None}

InitClean ==
    /\ nrm \in [pc : {"call"}, text : CleanTexts]
    /\ pdf = Idle /\ ing = Idle /\ shm = Idle
    /\ ctx = Idle /\ chk = Idle /\ cit = Idle /\ rtv = Idle /\ ans = Idle

\* clean_text(text)
CleanText ==
    /\ nrm.pc = "call"
    /\ nrm' = [pc |-> "done", text |-> nrm.text, result |-> clean_text(nrm.text)]
    /\ UNCHANGED <<answering, pdf, ing, shm>>

\* clean_text applied to what clean_text returned
CleanAgain ==
    /\ nrm.pc = "done"
    /\ nrm' = [pc |-> "again", text |-> nrm.text, result |-> nrm.result,
               again |-> clean_text(nrm.result)]
    /\ UNCHANGED <<answering, pdf, ing, shm>>

NextClean == CleanText \/ CleanAgain

SpecClean == InitClean /\ [][NextClean]_vars

HasRun(s) == \E k \in 1..(Len(s) - 1) : IsSpace(s[k]) /\ IsSpace(s[k + 1])

HasNbsp(s) == \E k \in 1..Len(s) : s[k] = "NBSP"

\* C14: what clean_text returns holds no non-breaking space and no two
\* adjacent whitespace characters, is the empty string for an empty or absent
\* input, and is left as it is by a second application of clean_text.
C14_CleanText ==
    /\ nrm.pc \in {"done", "again"} =>
        /\ ~HasNbsp(nrm.result)
        /\ ~HasRun(nrm.result)
        /\ (nrm.text \in {None, <<>>} => nrm.result = <<>>)
    /\ nrm.pc = "again" => nrm.again = nrm.result

\* A text with a non-breaking space inside a run of whitespace was cleaned twice
C14_Witness ==
    /\ nrm.pc = "again"
    /\ nrm.text # None
    /\ HasNbsp(nrm.text) /\ HasRun(nrm.text)
    /\ \E k \in 1..Len(nrm.text) : nrm.text[k] = "a"
    /\ nrm.again = nrm.result /\ nrm.result # nrm.text


(***************************************************************************)
(* load_pdf (src/ingest.py)                                                *)
(*                                                                         *)
(* file_obj is [kind, disk, pages]: kind is the Python type of the         *)
(* argument ("str" a path string, "Path" a pathlib.Path, "handle" an open  *)
(* binary stream), disk is what the file system or the stream holds        *)
(* ("missing", "unreadable", "corrupt", "ok") and pages are the texts the  *)
(* PDF library extracts, None for a page without text.  The local `file`   *)
(* is "unbound" until line 90 or line 95 has assigned it.                  *)
(***************************************************************************)

\* The exception open(file_obj, "rb") raises, "none" when it returns a handle
OpenRaises(file_obj) ==
    CASE file_obj.disk = "missing" -> "FileNotFoundError"
      [] file_obj.disk = "unreadable" -> "PermissionError"
      [] OTHER -> "none"

\* The exception PdfReader(file) or a page's extract_text raises; given a
\* pathlib.Path the reader opens the file itself
ReaderRaises(file_obj) ==
    CASE file_obj.disk = "corrupt" -> "PdfReadError"
      [] file_obj.kind = "Path" -> OpenRaises(file_obj)
      [] OTHER -> "none"

\* [page.extract_text() or "" for page in pdf_reader.pages]
PageTexts(pages) ==
    [k \in 1..Len(pages) |-> IF pages[k] = None THEN <<>> ELSE pages[k]]

\* The try block: the binding of `file`, the exception raised and pdf_text
pdf_try(file_obj) ==
    IF file_obj.kind = "str" /\ OpenRaises(file_obj) # "none"
        THEN [file |-> "unbound", pending |-> OpenRaises(file_obj), pdf_text |-> <<>>]
    ELSE LET file == IF file_obj.kind = "str" THEN "opened"
                     ELSE IF file_obj.kind = "Path" THEN "path" ELSE "given"
         IN  IF ReaderRaises(file_obj) # "none"
                 THEN [file |-> file, pending |-> ReaderRaises(file_obj),
                       pdf_text |-> <<>>]
                 ELSE [file |-> file, pending |-> "none",
                       pdf_text |-> PageTexts(file_obj.pages)]

\* The except clauses: the exception that is pending when they are left.
\* f"PDF {file} does not exist" reads the local `file`.
pdf_except(st) ==
    CASE st.pending = "none" -> "none"
      [] st.pending = "FileNotFoundError" ->
            IF st.file = "unbound" THEN "UnboundLocalError" ELSE "ValueError"
      [] OTHER -> "ValueError"

\* The finally clause, file.close(): an exception it raises replaces the
\* pending one
ClosePending(file, pending) ==
    CASE file = "unbound" -> "UnboundLocalError"
      [] file = "path" -> "AttributeError"
      [] OTHER -> pending

\* load_pdf(file_obj): [error, text, file, closed]
load_pdf(file_obj) ==
    LET st == pdf_try(file_obj)
        error == ClosePending(st.file, pdf_except(st))
    IN  [error |-> error,
         text |-> IF error = "none" THEN JoinLines(st.pdf_text) ELSE None,
         file |-> st.file,
         closed |-> st.file \in {"opened", "given"}]

\* Most pages of a PDF
MaxPages == 2

PdfPages == SeqsUpTo({None, <<"a">>, <<"b", " ">>}, MaxPages)

\* What ingest_pdfs can pass: a path string, a Path, an uploaded stream
PdfInputs ==
    [kind : {"str", "Path"}, disk : {"missing", "unreadable", "corrupt", "ok"},
     pages : PdfPages]
    \cup [kind : {"handle"}, disk : {"corrupt", "ok"}, pages : PdfPages]

InitPdf ==
    /\ pdf \in [pc : {"call"}, file_obj : PdfInputs]
    /\ nrm = Idle /\ ing = Idle /\ shm = Idle
    /\ ctx = Idle /\ chk = Idle /\ cit = Idle /\ rtv = Idle /\ ans = Idle

\* Lines 87-99
PdfTry ==
    /\ pdf.pc = "call"
    /\ LET st == pdf_try(pdf.file_obj)
       IN  pdf' = [pc |-> IF st.pending = "none" THEN "finally" ELSE "except",
                   file_obj |-> pdf.file_obj, file |-> st.file,
                   pending |-> st.pending, pdf_text |-> st.pdf_text]
    /\ UNCHANGED <<answering, nrm, ing, shm>>

\* Lines 102-105
PdfExcept ==
    /\ pdf.pc = "except"
    /\ pdf' = [pdf EXCEPT !.pc = "finally", !.pending = pdf_except(pdf)]
    /\ UNCHANGED <<answering, nrm, ing, shm>>

\* Lines 106-111
PdfFinally ==
    /\ pdf.pc = "finally"
    /\ LET r == load_pdf(pdf.file_obj)
       IN  pdf' = [pc |-> IF r.error = "none" THEN "done" ELSE "raised",
                   file_obj |-> pdf.file_obj, file |-> pdf.file,
                   error |-> ClosePending(pdf.file, pdf.pending),
                   text |-> r.text, closed |-> r.closed]
    /\ UNCHANGED <<answering, nrm, ing, shm>>

NextPdf == PdfTry \/ PdfExcept \/ PdfFinally

SpecPdf == InitPdf /\ [][NextPdf]_vars

\* C13: for a path string, a Path or a stream, load_pdf returns the page
\* texts joined by newlines or raises ValueError and nothing else, and a
\* handle it opened is closed when it is left.
C13_LoadPdf ==
    /\ pdf.pc = "raised" => pdf.error = "ValueError"
    /\ pdf.pc = "done" =>
          pdf.error = "none" /\ pdf.text = JoinLines(PageTexts(pdf.file_obj.pages))
    /\ pdf.pc \in {"done", "raised"} /\ pdf.file = "opened" => pdf.closed


(***************************************************************************)
(* load_url (src/ingest.py)                                                *)
(*                                                                         *)
(* A page is what the network and the parsing libraries give for one GET:  *)
(* [fetch, ctype, parses, text, pages].  fetch is "fail" when requests.get *)
(* or raise_for_status raises, ctype is the Content-Type header, parses    *)
(* tells whether the library for that content accepts the body, text is    *)
(* the text that library yields (the visible text of HTML, the re-dumped   *)
(* JSON, the decoded body) and pages are the page texts of a PDF body.     *)
(***************************************************************************)

StartsWith(s, p) == Len(s) >= Len(p) /\ SubSeq(s, 1, Len(p)) = p

EndsWith(s, p) == Len(s) >= Len(p) /\ SubSeq(s, Len(s) - Len(p) + 1, Len(s)) = p

\* s.find(old): the 0-based offset of the first occurrence, -1 without one
Find(s, old) ==
    LET at == {k \in 0..(Len(s) - Len(old)) : SubSeq(s, k + 1, k + Len(old)) = old}
    IN  IF at = {} THEN -1 ELSE CHOOSE k \in at : \A m \in at : k <= m

RECURSIVE Replace(_, _, _)
\* s.replace(old, new), for a non-empty old: the occurrences from the left
Replace(s, old, new) ==
    IF Find(s, old) = -1 THEN s
    ELSE SubSeq(s, 1, Find(s, old)) \o new
         \o Replace(SubSeq(s, Find(s, old) + Len(old) + 1, Len(s)), old, new)

\* s.strip(c) for one character c
StripChar(s, c) ==
    LET inside == {k \in 1..Len(s) : s[k] # c}
    IN  IF inside = {} THEN <<>>
        ELSE SubSeq(s, CHOOSE k \in inside : \A m \in inside : k <= m,
                       CHOOSE k \in inside : \A m \in inside : k >= m)

\* str.lower() on the letters the URLs of the model use
LowerChar(c) ==
    CASE c = "P" -> "p" [] c = "D" -> "d" [] c = "F" -> "f" [] OTHER -> c

Lower(s) == [k \in 1..Len(s) |-> LowerChar(s[k])]

DotPdf == <<".", "p", "d", "f">>

\* content_type.partition(";")[0].strip() == "application/pdf"
\*     or url.lower().endswith(".pdf")
IsPdf(url, ctype) == ctype = "application/pdf" \/ EndsWith(Lower(url), DotPdf)

\* "html" in content_type
IsHtml(ctype) == ctype = "text/html"

\* "json" in content_type
IsJson(ctype) == ctype = "application/json"

\* "text" in content_type
IsText(ctype) == ctype \in {"text/html", "text/plain"}

\* io.BytesIO(response.content) as load_pdf sees it
PdfBytes(page) ==
    [kind |-> "handle", disk |-> IF page.parses THEN "ok" ELSE "corrupt",
     pages |-> page.pages]

\* load_url(url): [error, text].  Only requests.exceptions.RequestException
\* is turned into ValueError; response.json() raises a RequestException on
\* a body that is not JSON; BeautifulSoup raises ParserRejectedMarkup on
\* markup html.parser refuses.
load_url(url, page) ==
    CASE page.fetch = "fail" -> [error |-> "ValueError", text |-> None]
      [] page.fetch = "ok" /\ IsPdf(url, page.ctype) ->
            LET r == load_pdf(PdfBytes(page))
            IN  [error |-> r.error, text |-> r.text]
      [] page.fetch = "ok" /\ ~IsPdf(url, page.ctype) /\ IsHtml(page.ctype) ->
            IF page.parses THEN [error |-> "none", text |-> page.text]
            ELSE [error |-> "ParserRejectedMarkup", text |-> None]
      [] page.fetch = "ok" /\ ~IsPdf(url, page.ctype) /\ ~IsHtml(page.ctype)
            /\ IsJson(page.ctype) ->
            IF page.parses THEN [error |-> "none", text |-> page.text]
            ELSE [error |-> "ValueError", text |-> None]
      [] page.fetch = "ok" /\ ~IsPdf(url, page.ctype) /\ ~IsHtml(page.ctype)
            /\ ~IsJson(page.ctype) /\ IsText(page.ctype) ->
            [error |-> "none", text |-> page.text]
      [] OTHER -> [error |-> "none", text |-> <<>>]

(***************************************************************************)
(* ingest_urls and ingest_pdfs (src/ingest.py)                             *)
(*                                                                         *)
(* The collection is the set of records the store holds.  Its add is the   *)
(* one of the docstring of ingest_urls: identifiers are unique within the  *)
(* collection and an add that brings an identifier again raises.           *)
(***************************************************************************)

\* chunk_chars of both coordinators
IngestChunkChars == 1200

\* overlap_chars of both coordinators
IngestOverlapChars == 200

\* [:80] of the URL slug
SlugChars == 80

\* int(time.time()) % 100000
ClockMod == 100000

Distinct(s) == \A j, k \in 1..Len(s) : j # k => s[j] # s[k]

Rejects_never(collection, ids) == FALSE

\* The store refuses an add that brings an identifier it holds, or one twice
Rejects(collection, ids) ==
    \/ \E r \in collection : \E k \in 1..Len(ids) : r.id = ids[k]
    \/ ~Distinct(ids)

\* short of ingest_urls
Slug(source_url) ==
    LET bare == StripChar(Replace(Replace(source_url,
                    <<"h", "t", "t", "p", "s", ":", "/", "/">>, <<>>),
                    <<"h", "t", "t", "p", ":", "/", "/">>, <<>>), "/")
    IN  Slice(Replace(bare, <<"/">>, <<"-">>), 0, SlugChars)

\* f"{short}-{url_idx}-{i}"
UrlId(short, url_idx, i) ==
    short \o <<"-">> \o IntToStr(url_idx) \o <<"-">> \o IntToStr(i)

\* f"{base_name}-{i}-{int(time.time())%100000}"
PdfId(base_name, i, clock) ==
    base_name \o <<"-">> \o IntToStr(i) \o <<"-">> \o IntToStr(clock % ClockMod)

RECURSIVE LastPart(_)
\* Path(p).name: what follows the last "/"
LastPart(p) ==
    IF \A k \in 1..Len(p) : p[k] # "/" THEN p
    ELSE LastPart(Tail(p))

UploadPdf == <<"u", "p", "l", "o", "a", "d", ".", "p", "d", "f">>

\* base_name of ingest_pdfs; a stream has a name or not
BaseName(file_obj) ==
    IF file_obj.kind \in {"str", "Path"} THEN LastPart(file_obj.path)
    ELSE IF file_obj.path = None THEN UploadPdf ELSE LastPart(file_obj.path)

\* The identifier of chunk i of a source: stem is its slug or base name,
\* salt its position in the batch (URLs) or the clock (files)
IdFor(type, stem, salt, i) ==
    IF type = "url" THEN UrlId(stem, salt, i) ELSE PdfId(stem, i, salt)

\* The records of one source: text_parts with their identifiers and metadata
Records(text_parts, stem, salt, source, type) ==
    [i \in 1..Len(text_parts) |->
        [id |-> IdFor(type, stem, salt, i - 1), document |-> text_parts[i],
         source |-> source, type |-> type, chunk |-> i - 1]]

IdsOfRecords(records) == [k \in 1..Len(records) |-> records[k].id]


\* Most sources of one batch
MaxSources == 2

Page(fetch, ctype, parses, text, pages) ==
    [fetch |-> fetch, ctype |-> ctype, parses |-> parses, text |-> text,
     pages |-> pages]

\* A text of two chunks: 1300 characters, a space every fifth
LongText == [k \in 1..1300 |-> IF k % 5 = 0 THEN " " ELSE "w"]

HtmlOk == Page("ok", "text/html", TRUE, <<"a", "NBSP", " ", "b">>, <<>>)

SmallPages ==
    { Page("fail", "", FALSE, <<>>, <<>>),
      Page("ok", "text/html", FALSE, <<>>, <<>>),
      HtmlOk,
      Page("ok", "application/json", FALSE, <<>>, <<>>),
      Page("ok", "application/pdf", FALSE, <<>>, <<>>),
      Page("ok", "image/png", TRUE, <<>>, <<<<"a">>, None>>),
      Page("ok", "text/plain", TRUE, <<" ">>, <<>>) }

Https == <<"h", "t", "t", "p", "s", ":", "/", "/">>

ShortUrls ==
    { <<"h", "t", "t", "p", ":", "/", "/", "a">>,
      Https \o <<"a">>,
      Https \o <<"a", "/", "b", "/">>,
      Https \o <<"a", "/", "x", ".", "P", "D", "F">> }

\* Two URLs that differ only after the first 80 characters of the slug
LongUrl(c) == Https \o [k \in 1..SlugChars |-> "x"] \o <<c>>

UrlSources ==
    [url : ShortUrls, page : SmallPages]
    \cup [url : {LongUrl("1"), LongUrl("2")}, page : {HtmlOk}]
    \cup [url : {Https \o <<"a">>},
          page : {Page("ok", "text/plain", TRUE, LongText, <<>>)}]

PdfFile(kind, path, disk, pages) ==
    [kind |-> kind, path |-> path, disk |-> disk, pages |-> pages]

PdfPaths ==
    { <<"a", "/", "x", ".", "p", "d", "f">>,
      <<"b", "/", "x", ".", "p", "d", "f">>,
      <<"y", ".", "p", "d", "f">> }

PdfSources ==
    { PdfFile("str", p, d, pg) :
        p \in PdfPaths, d \in {"ok", "missing"}, pg \in {<<<<"a">>>>, <<None>>} }
    \cup { PdfFile("Path", <<"y", ".", "p", "d", "f">>, "ok", <<<<"a">>>>) }
    \cup { PdfFile("handle", n, d, <<<<"a">>, <<"b">>>>) :
             n \in {None, <<"x", ".", "p", "d", "f">>}, d \in {"ok", "corrupt"} }

InitIngest ==
    /\ \E fn \in {"urls", "pdfs"} :
        \E sources \in SeqsUpTo(IF fn = "urls" THEN UrlSources ELSE PdfSources,
                                MaxSources) :
        \E clock \in (IF fn = "pdfs" THEN {0, ClockMod - 1} ELSE {0}) :
            ing = [pc |-> "loop", fn |-> fn, sources |-> sources, idx |-> 0,
                   total_docs |-> 0, collection |-> {}, clock |-> clock,
                   run |-> 1, submitted |-> <<>>, error |-> "none",
                   error_at |-> "none", first |-> <<>>]
    /\ nrm = Idle /\ pdf = Idle /\ shm = Idle
    /\ ctx = Idle /\ chk = Idle /\ cit = Idle /\ rtv = Idle /\ ans = Idle

\* An exception leaves the coordinator
IngestRaise(at, type) ==
    [ing EXCEPT !.pc = "raised", !.error = type, !.error_at = at]

\* Lines 223-234 and 283-300: the text of one source is cleaned, chunked and
\* added; total_docs grows by what was added
AddSource(st, raw_text, stem, salt, source, type) ==
    LET cleaned_text == clean_text(raw_text)
        text_parts == chunk_text(cleaned_text, IngestChunkChars, IngestOverlapChars)
        records == Records(text_parts, stem, salt, source, type)
        ids == IdsOfRecords(records)
    IN  IF cleaned_text = <<>> \/ records = <<>>
            THEN [st EXCEPT !.idx = st.idx + 1]
        ELSE IF Rejects(st.collection, ids)
            THEN [st EXCEPT !.pc = "raised", !.error = "DuplicateIDError",
                            !.error_at = "store",
                            !.submitted = Append(st.submitted, ids)]
        ELSE [st EXCEPT !.idx = st.idx + 1,
                        !.collection = st.collection \cup Range(records),
                        !.total_docs = st.total_docs + Len(records),
                        !.submitted = Append(st.submitted, ids)]

\* One iteration of the loop of ingest_urls (lines 271-300)
UrlIteration ==
    /\ ing.pc = "loop" /\ ing.fn = "urls" /\ ing.idx < Len(ing.sources)
    /\ LET source == ing.sources[ing.idx + 1]
           loaded == load_url(source.url, source.page)
           short == Slug(source.url)
       IN  ing' = CASE loaded.error = "ValueError" ->
                        [ing EXCEPT !.idx = ing.idx + 1]
                    [] loaded.error \notin {"none", "ValueError"} ->
                        IngestRaise("load", loaded.error)
                    [] OTHER ->
                        AddSource(ing, loaded.text, short, ing.idx, source.url,
                                  "url")
    /\ UNCHANGED <<answering, nrm, pdf, shm>>

\* One iteration of the loop of ingest_pdfs (lines 211-234); the clock may
\* have passed to the next second since the previous file
PdfIteration ==
    /\ ing.pc = "loop" /\ ing.fn = "pdfs" /\ ing.idx < Len(ing.sources)
    /\ \E tick \in {0, 1} :
        LET file_obj == ing.sources[ing.idx + 1]
            base_name == BaseName(file_obj)
            loaded == load_pdf(file_obj)
            now == ing.clock + tick
        IN  ing' = IF loaded.error # "none"
                       THEN IngestRaise("load", loaded.error)
                       ELSE AddSource([ing EXCEPT !.clock = now], loaded.text,
                                      base_name, now, base_name, "pdf")
    /\ UNCHANGED <<answering, nrm, pdf, shm>>

\* return total_docs (lines 236, 302)
IngestReturn ==
    /\ ing.pc = "loop" /\ ing.idx = Len(ing.sources)
    /\ ing' = [ing EXCEPT !.pc = "done"]
    /\ UNCHANGED <<answering, nrm, pdf, shm>>

\* The same call once more: the same list, the same fetched content, the
\* collection as the first call left it
IngestAgain ==
    /\ ing.pc = "done" /\ ing.run = 1
    /\ ing' = [ing EXCEPT !.pc = "loop", !.run = 2, !.idx = 0,
                          !.total_docs = 0, !.submitted = <<>>,
                          !.first = <<[collection |-> ing.collection,
                                       total_docs |-> ing.total_docs,
                                       submitted |-> ing.submitted]>>]
    /\ UNCHANGED <<answering, nrm, pdf, shm>>

NextIngest == UrlIteration \/ PdfIteration \/ IngestReturn \/ IngestAgain

SpecIngest == InitIngest /\ [][NextIngest]_vars


\* The records ingest_urls owes for the URL at position k (from 1): those of
\* its chunks when it loads, none when loading it fails
OwedRecords(k) ==
    LET source == ing.sources[k]
        loaded == load_url(source.url, source.page)
    IN  IF loaded.error # "none" THEN {}
        ELSE Range(Records(chunk_text(clean_text(loaded.text), IngestChunkChars,
                                      IngestOverlapChars),
                           Slug(source.url), k - 1, source.url, "url"))

\* C11: in ingest_urls a failure to load one URL, from the network or from
\* parsing, never ends the call; the call returns with the chunks of every
\* other URL added, and the count it returns is the number of records added.
C11_SkipOnlyFailing ==
    ing.pc # "idle" /\ ing.fn = "urls" /\ ing.run = 1 =>
        /\ ing.pc = "raised" => ing.error_at # "load"
        /\ ing.pc = "done" =>
            /\ ing.collection = UNION {OwedRecords(k) : k \in 1..Len(ing.sources)}
            /\ ing.total_docs = Cardinality(ing.collection)

IsPrefix(s, t) == Len(s) <= Len(t) /\ s = SubSeq(t, 1, Len(s))

\* C12: a second ingest_urls call with the same list and the same content
\* submits the identifiers of the first call again; when the first call added
\* records the store refuses the add, that error leaves ingest_urls, and the
\* collection holds what it held after the first call.
C12_ReingestRejected ==
    ing.pc # "idle" /\ ing.fn = "urls" /\ ing.run = 2 =>
        /\ ing.collection = ing.first[1].collection
        /\ IsPrefix(ing.submitted, ing.first[1].submitted)
        /\ ing.pc = "raised" =>
              ing.error_at = "store" /\ ing.submitted # <<>>
        /\ ing.pc = "done" => ing.first[1].total_docs = 0

\* A second call was refused by the store after it had skipped a URL, the
\* first call having added several records
C12_Witness ==
    /\ ing.pc = "raised" /\ ing.fn = "urls" /\ ing.run = 2
    /\ ing.error_at = "store"
    /\ ing.idx >= 1
    /\ ing.first[1].total_docs >= 2
    /\ ing.collection = ing.first[1].collection

\* C18: in one ingest_pdfs or ingest_urls call on an empty collection the
\* identifiers submitted to the store are pairwise distinct, and the store
\* refuses no add of the call.
C18_DistinctIds ==
    ing.pc # "idle" /\ ing.run = 1 =>
        /\ Distinct(Join(ing.submitted))
        /\ ~(ing.pc = "raised" /\ ing.error_at = "store")


(***************************************************************************)
(* answer and the caller's system message                                  *)
(***************************************************************************)

\* The system message a prompt made for system_msg begins with
SystemOf(system_msg) ==
    IF strip(OrEmpty(system_msg)) = <<>> THEN DEFAULT_SYSTEM
    ELSE strip(OrEmpty(system_msg))

\* C15: the prompt answer builds, sends to the model and returns begins with
\* the system message its caller passed as system_msg.
C15_CallerSystemMessage ==
    /\ ans.pc \in {"prompted", "generated", "done"} =>
          StartsWith(ans.prompt, SystemOf(ans.system_msg))
    /\ ans.pc = "done" =>
          StartsWith(ans.result.prompt, SystemOf(ans.system_msg))


(***************************************************************************)
(* The compatibility shim of app.py: _FakeResponse and _ollama_proxy_post  *)
(*                                                                         *)
(* A response is [fake, status_code, _text, _stream]: fake tells a         *)
(* _FakeResponse from a response of the original requests.post.  A line    *)
(* of iter_lines is given by the object it encodes, [model, response,      *)
(* done].  net is what the original post and the reading of its body       *)
(* give: it raises ("raise", with the exception's message), answers with   *)
(* an HTTP error status ("status") or answers with a content ("ok").       *)
(***************************************************************************)

LocalPrefix ==
    <<"h", "t", "t", "p", ":", "/", "/", "l", "o", "c", "a", "l", "h", "o",
      "s", "t", ":", "1", "1", "4", "3", "4">>

GenerateSuffix ==
    <<"/", "a", "p", "i", "/", "g", "e", "n", "e", "r", "a", "t", "e">>

TagsSuffix ==
    <<"/", "a", "p", "i", "/", "t", "a", "g", "s">>

GROQ_URL ==
    <<"h", "t", "t", "p", "s", ":", "/", "/", "a", "p", "i", ".", "g", "r",
      "o", "q", ".", "c", "o", "m", "/", "o", "p", "e", "n", "a", "i", "/",
      "v", "1", "/", "c", "h", "a", "t", "/", "c", "o", "m", "p", "l", "e",
      "t", "i", "o", "n", "s">>

KeyNotSet ==
    <<"G", "R", "O", "Q", "_", "A", "P", "I", "_", "K", "E", "Y", " ", "n",
      "o", "t", " ", "s", "e", "t">>

ProxyErrorPrefix ==
    <<"P", "r", "o", "x", "y", " ", "e", "r", "r", "o", "r", ":", " ">>

\* _FakeResponse(text, model, stream)
FakeResponse(text, stream) ==
    [fake |-> TRUE, status_code |-> 200, _text |-> OrEmpty(text),
     _stream |-> stream]

\* A response of the original post
RealResponse(status_code, text) ==
    [fake |-> FALSE, status_code |-> status_code, _text |-> text,
     _stream |-> FALSE]

NoResponse == RealResponse(0, None)

\* step of iter_lines
Step(s) ==
    Max(1, Min(64, IF Len(s) \div 40 = 0 THEN 1 ELSE Len(s) \div 40))

FragmentAt_short(s, i, step) == Slice(s, i, i + step - 1)

\* s[i:i+step]
FragmentAt(s, i, step) == Slice(s, i, i + step)

\* The line yielded for the fragment at offset i
FragmentLine(s, i) ==
    [model |-> "MODEL_ID", response |-> FragmentAt(s, i, Step(s)), done |-> FALSE]

\* The line yielded after the loop
FinalLine == [model |-> "MODEL_ID", response |-> <<>>, done |-> TRUE]

\* url.startswith("http://localhost:11434") and url.endswith("/api/generate")
Intercepted(url) == StartsWith(url, LocalPrefix) /\ EndsWith(url, GenerateSuffix)

\* The try block of _ollama_proxy_post: [raised, message, response]
proxy_try(url, groq_api_key, want_stream, net) ==
    IF url = None
        THEN [raised |-> "AttributeError", message |-> <<>>, response |-> NoResponse]
    ELSE IF Intercepted(url) /\ ~groq_api_key
        THEN [raised |-> "none", message |-> <<>>,
              response |-> FakeResponse(KeyNotSet, FALSE)]
    ELSE IF net.kind = "raise"
        THEN [raised |-> "RequestException", message |-> net.message,
              response |-> NoResponse]
    ELSE IF Intercepted(url) /\ net.kind = "status"
        THEN [raised |-> "HTTPError", message |-> net.message,
              response |-> NoResponse]
    ELSE IF Intercepted(url)
        THEN [raised |-> "none", message |-> <<>>,
              response |-> FakeResponse(net.content, want_stream)]
    ELSE [raised |-> "none", message |-> <<>>,
          response |-> RealResponse(IF net.kind = "status" THEN 500 ELSE 200,
                                    net.content)]

Catches_nothing(type) == FALSE

\* except Exception
Catches(type) == TRUE

\* _ollama_proxy_post(url, ...): [raised, response]
proxy_post(url, groq_api_key, want_stream, net) ==
    LET tried == proxy_try(url, groq_api_key, want_stream, net)
    IN  IF tried.raised # "none" /\ Catches(tried.raised)
            THEN [raised |-> "none",
                  response |-> FakeResponse(ProxyErrorPrefix \o tried.message, FALSE)]
            ELSE [raised |-> tried.raised, response |-> tried.response]

\* What call_llm reads from what the patched post gave it: with a credential
\* data["choices"][0]["message"]["content"], without one data.get("response")
ReplyOf(posted, groq_key) ==
    IF posted.raised # "none" \/ posted.response.status_code # 200
        THEN TransportFailure
    ELSE IF groq_key /\ posted.response.fake THEN TransportFailure
    ELSE TransportReply(posted.response._text)

\* Longest of the short texts of the model service
MaxFakeLen == 3

TextOfLen(n) == [k \in 1..n |-> DigitChars[(k % 10) + 1]]

\* Lengths that give steps 1, 2, 3 and 64
LongLens == {80, 81, 130, 2600}

Contents ==
    {None, <<" ">>} \cup {TextOfLen(n) : n \in (0..MaxFakeLen) \cup LongLens}

Nets ==
    {[kind |-> "raise", message |-> m, content |-> None] :
        m \in {<<>>, <<"t", "i", "m", "e", "o", "u", "t">>}}
    \cup {[kind |-> "status", message |-> <<"5", "0", "0">>, content |-> <<>>]}
    \cup {[kind |-> "ok", message |-> <<>>, content |-> c] : c \in Contents}

\* The URLs posted to: the local generate endpoint, another local endpoint,
\* the cloud endpoint, and a url that is not a string
PostUrls ==
    {LocalPrefix \o GenerateSuffix, LocalPrefix \o TagsSuffix, GROQ_URL, None}

\* The URL call_llm posts to
UrlOfCallLlm(groq_key) ==
    IF groq_key THEN GROQ_URL ELSE LocalPrefix \o GenerateSuffix

InitShim ==
    /\ \E caller \in {"call_llm", "other"} :
       \E groq_key, groq_api_key, want_stream \in BOOLEAN :
       \E url \in PostUrls :
       \E net \in Nets :
          /\ caller = "call_llm" => url = UrlOfCallLlm(groq_key) /\ ~want_stream
          /\ caller = "other" => ~groq_key
          /\ shm = [pc |-> "post", caller |-> caller, groq_key |-> groq_key,
                    GROQ_API_KEY |-> groq_api_key, want_stream |-> want_stream,
                    url |-> url, net |-> net,
                    posted |-> [raised |-> "none", response |-> NoResponse],
                    i |-> 0, lines |-> <<>>,
                    out |-> [error |-> "none", text |-> <<>>]]
    /\ nrm = Idle /\ pdf = Idle /\ ing = Idle
    /\ ctx = Idle /\ chk = Idle /\ cit = Idle /\ rtv = Idle /\ ans = Idle

\* requests.post(url, ...) with the shim installed (line 70)
ProxyPost ==
    /\ shm.pc = "post"
    /\ shm' = [shm EXCEPT !.pc = "posted",
                          !.posted = proxy_post(shm.url, shm.GROQ_API_KEY,
                                                shm.want_stream, shm.net)]
    /\ UNCHANGED <<answering, nrm, pdf, ing>>

\* call_llm after its post: raise_for_status, json, the text or RuntimeError
CallLlmReturns ==
    /\ shm.pc = "posted" /\ shm.caller = "call_llm"
    /\ LET got == call_llm(shm.groq_key, ReplyOf(shm.posted, shm.groq_key))
       IN  shm' = [shm EXCEPT
                     !.pc = IF got.error = "none" THEN "returned" ELSE "raised",
                     !.out = IF got.error = "none" THEN got
                             ELSE [error |-> got.error, text |-> <<>>]]
    /\ UNCHANGED <<answering, nrm, pdf, ing>>

\* One pass of the loop of iter_lines on a _FakeResponse
IterYield ==
    /\ shm.pc \in {"posted", "iterating"} /\ shm.caller = "other"
    /\ shm.posted.response.fake
    /\ shm.i < Len(shm.posted.response._text)
    /\ LET s == shm.posted.response._text
       IN  shm' = [shm EXCEPT !.pc = "iterating",
                              !.lines = Append(shm.lines, FragmentLine(s, shm.i)),
                              !.i = shm.i + Step(s)]
    /\ UNCHANGED <<answering, nrm, pdf, ing>>

\* The last yield of iter_lines
IterFinal ==
    /\ shm.pc \in {"posted", "iterating"} /\ shm.caller = "other"
    /\ shm.posted.response.fake
    /\ shm.i >= Len(shm.posted.response._text)
    /\ shm' = [shm EXCEPT !.pc = "exhausted",
                          !.lines = Append(shm.lines, FinalLine)]
    /\ UNCHANGED <<answering, nrm, pdf, ing>>

NextShim == ProxyPost \/ CallLlmReturns \/ IterYield \/ IterFinal

SpecShim == InitShim /\ [][NextShim]_vars


\* The lines yielded so far that carry a fragment
FragmentsSoFar ==
    IF shm.pc = "exhausted" THEN SubSeq(shm.lines, 1, Len(shm.lines) - 1)
    ELSE shm.lines

ResponsesOf(lines) == [k \in 1..Len(lines) |-> lines[k].response]

\* C16: iter_lines yields the text in fragments of one size, the last one
\* possibly shorter, each on a line that is not done, and then exactly one
\* done line with an empty response; the fragments put together are the text,
\* and an empty text gives the done line alone.
C16_IterLines ==
    shm.pc \in {"iterating", "exhausted"} =>
        LET s == shm.posted.response._text
            frags == FragmentsSoFar
            m == Len(frags)
        IN  /\ \A k \in 1..m : ~frags[k].done /\ frags[k].response # <<>>
            /\ \E size \in 1..Max(1, Len(s)) :
                  /\ \A k \in 1..(m - 1) : Len(frags[k].response) = size
                  /\ m > 0 => Len(frags[m].response) <= size
            /\ IsPrefix(Join(ResponsesOf(frags)), s)
            /\ shm.pc = "exhausted" =>
                  /\ Join(ResponsesOf(frags)) = s
                  /\ shm.lines[Len(shm.lines)].done
                  /\ shm.lines[Len(shm.lines)].response = <<>>
                  /\ s = <<>> => Len(shm.lines) = 1

\* A text was yielded in fragments of 64 characters and a shorter last one
C16_Witness ==
    /\ shm.pc = "exhausted"
    /\ Len(shm.lines) >= 4
    /\ Len(shm.lines[1].response) = 64
    /\ Len(shm.lines[Len(shm.lines) - 1].response) \in 1..63

\* The message of the response the shim makes when it cannot answer
ShimMessage ==
    IF ~shm.GROQ_API_KEY THEN KeyNotSet ELSE ProxyErrorPrefix \o shm.net.message

\* The intercepted post found no credential, or its cloud request failed
ShimCannotAnswer ==
    /\ Intercepted(shm.url)
    /\ ~shm.GROQ_API_KEY \/ shm.net.kind \in {"raise", "status"}

==========================================================================
